---- MODULE Spec2Model ----
(***************************************************************************)
(* A model of hbsums.py: the name sanitizer (make_safe), the manifest      *)
(* flattener (get_product_info), the checksum list formatters (flat_sums,  *)
(* folder_sums), the verifier (check, ChecksumItem.checksum) and the       *)
(* filesystem organizer (make_folders, move_items, make_move).             *)
(*                                                                         *)
(* A Python str is a sequence of one-character strings.  A call that may   *)
(* raise returns a record [raised |-> name of the exception or "",         *)
(* value |-> the value returned].                                          *)
(***************************************************************************)
EXTENDS Integers, Sequences, FiniteSets, TLC

VARIABLES
    \* make_safe applied to one path component, then to its own output
    path_component, safe_result, safe_again, ms_pc,
    \* the parse of one checksum line (first loop of check)
    line, parsed, pl_pc,
    \* get_product_info, flat_sums / folder_sums and check
    data, gp, product_info, layout, checksums, items, idx, succeeded, failed,
    printed, fp, buf, md5sum, pc,
    \* make_folders, move_items, make_move
    products, option, todo, folders, created, oplog, mv, org_pc

safeVars  == <<path_component, safe_result, safe_again, ms_pc>>
parseVars == <<line, parsed, pl_pc>>
mainVars  == <<data, gp, product_info, layout, checksums, items, idx, succeeded,
               failed, printed, fp, buf, md5sum, pc>>
moveVars  == <<products, option, todo, folders, created, oplog, mv, org_pc>>
vars      == <<safeVars, parseVars, mainVars, moveVars>>

\* ------------------------------------------------------------------------
\* Bounds of the model
\* ------------------------------------------------------------------------
MaxLen      == 4    \* longest path component given to make_safe
MaxLineLen  == 4    \* longest checksum line given to the line parser
MaxProducts == 2    \* most products in a manifest
MaxLines    == 2    \* most lines of a hand-authored checksum list
MaxChunks   == 1    \* a file holds at most MaxChunks full chunks plus one unit
MaxRecords  == 2    \* most file records given to the organizer

\* Sequences over A of length at most n.
Strings(A, n) == UNION {[1..k -> A] : k \in 0..n}

\* ------------------------------------------------------------------------
\* Results of calls that may raise
\* ------------------------------------------------------------------------
Returns(v) == [raised |-> "", value |-> v]
Raises(e)  == [raised |-> e, value |-> <<>>]
NoResult   == [raised |-> "not called", value |-> <<>>]

\* ------------------------------------------------------------------------
\* make_safe
\* ------------------------------------------------------------------------
Digits19 == {"1", "2", "3", "4", "5", "6", "7", "8", "9"}

ILLEGAL_NAMES ==
    {<<"C", "O", "N">>, <<"P", "R", "N">>, <<"A", "U", "X">>, <<"N", "U", "L">>}
    \cup {<<"C", "O", "M", d>> : d \in Digits19}
    \cup {<<"L", "P", "T", d>> : d \in Digits19}

\* The character class [\\/*?:"<>|].
ReservedChars == {"\\", "/", "*", "?", ":", "\"", "<", ">", "|"}

\* The character class [\u0000-\u001F], as far as a TLA+ string can write it.
ControlChars == {"\t", "\n", "\r", "\f"}

Lowercase == <<"a", "b", "c", "d", "e", "f", "g", "h", "i", "j", "k", "l", "m",
               "n", "o", "p", "q", "r", "s", "t", "u", "v", "w", "x", "y", "z">>
Uppercase == <<"A", "B", "C", "D", "E", "F", "G", "H", "I", "J", "K", "L", "M",
               "N", "O", "P", "Q", "R", "S", "T", "U", "V", "W", "X", "Y", "Z">>

\* str.upper(), one character.
UpperChar(c) ==
    IF \E i \in 1..Len(Lowercase) : Lowercase[i] = c
    THEN Uppercase[CHOOSE i \in 1..Len(Lowercase) : Lowercase[i] = c]
    ELSE c

\* str.upper()
Upper(s) == [i \in 1..Len(s) |-> UpperChar(s[i])]

\* re.sub(class, '', s)
RemoveChars(s, class) == SelectSeq(s, LAMBDA c : c \notin class)

\* Index of the first occurrence of c in s, 0 when there is none (str.find + 1).
Find(s, c) ==
    IF \E i \in 1..Len(s) : s[i] = c
    THEN CHOOSE i \in 1..Len(s) : s[i] = c /\ \A j \in 1..(i - 1) : s[j] # c
    ELSE 0

\* s.split(c)[0]
FirstField(s, c) == IF Find(s, c) = 0 THEN s ELSE SubSeq(s, 1, Find(s, c) - 1)

\* A one-step variant of the loop below: strips one trailing character only.
StripTrailingOnce(s) ==
    IF s = <<>> THEN Raises("IndexError")
    ELSE IF s[Len(s)] = "." \/ s[Len(s)] = " "
         THEN Returns(SubSeq(s, 1, Len(s) - 1))
         ELSE Returns(s)

\* while safe_pc[-1] == '.' or safe_pc[-1] == ' ': safe_pc = safe_pc[:-1]
\* safe_pc[-1] of the empty string raises IndexError.
RECURSIVE StripTrailing(_)
StripTrailing(s) ==
    IF s = <<>> THEN Raises("IndexError")
    ELSE IF s[Len(s)] = "." \/ s[Len(s)] = " "
         THEN StripTrailing(SubSeq(s, 1, Len(s) - 1))
         ELSE Returns(s)

\* A variant of the test below that compares the stem without upper-casing it.
RenameCaseSensitive(s) ==
    IF FirstField(s, ".") \in ILLEGAL_NAMES THEN <<"_">> \o s ELSE s

\* if safe_pc.upper().split('.')[0] in ILLEGAL_NAMES: safe_pc = '_' + safe_pc
Rename(s) ==
    IF FirstField(Upper(s), ".") \in ILLEGAL_NAMES THEN <<"_">> \o s ELSE s

make_safe(component) ==
    LET stripped == StripTrailing(RemoveChars(RemoveChars(component, ReservedChars),
                                              ControlChars))
    IN  IF stripped.raised # "" THEN stripped ELSE Returns(Rename(stripped.value))

\* Path components given to make_safe: every string over a small alphabet, and
\* every reserved device name as it is, in lower case, and with an extension.
SafeAlphabet == {"c", "O", "N", ".", " ", "*", "\t", "_"}

Lower(s) ==
    [i \in 1..Len(s) |->
        IF \E k \in 1..Len(Uppercase) : Uppercase[k] = s[i]
        THEN Lowercase[CHOOSE k \in 1..Len(Uppercase) : Uppercase[k] = s[i]]
        ELSE s[i]]

ReservedInputs ==
    ILLEGAL_NAMES
    \cup {Lower(n) : n \in ILLEGAL_NAMES}
    \cup {n \o <<".", "e">> : n \in ILLEGAL_NAMES}
    \cup {<<"?">> \o n \o <<" ", ".">> : n \in ILLEGAL_NAMES}

SafeInputs == Strings(SafeAlphabet, MaxLen) \cup ReservedInputs

\* ------------------------------------------------------------------------
\* Idle values of the variables a specification does not use
\* ------------------------------------------------------------------------
NoFile == [size |-> 0, md5 |-> <<>>, position |-> 0]
NoBuf  == [type |-> "none", len |-> 0]

SafeIdle ==
    /\ path_component = <<>> /\ safe_result = NoResult /\ safe_again = NoResult
    /\ ms_pc = "idle"
ParseIdle == line = <<>> /\ parsed = NoResult /\ pl_pc = "idle"
MainIdle ==
    /\ data = <<>> /\ gp = <<0, 0, 0>> /\ product_info = <<>> /\ layout = "none"
    /\ checksums = <<>> /\ items = <<>> /\ idx = 0 /\ succeeded = 0 /\ failed = 0
    /\ printed = "" /\ fp = NoFile /\ buf = NoBuf /\ md5sum = 0 /\ pc = "idle"
MoveIdle ==
    /\ products = <<>> /\ option = "none" /\ todo = <<>> /\ folders = {}
    /\ created = {}
    /\ oplog = <<>> /\ mv = 0 /\ org_pc = "idle"

\* ------------------------------------------------------------------------
\* Specification SpecSafe: make_safe on one component, then on its own output
\* ------------------------------------------------------------------------
InitSafe ==
    /\ path_component \in SafeInputs
    /\ safe_result = NoResult /\ safe_again = NoResult /\ ms_pc = "start"
    /\ ParseIdle /\ MainIdle /\ MoveIdle

\* safe = make_safe(path_component)
ApplyMakeSafe ==
    /\ ms_pc = "start"
    /\ safe_result' = make_safe(path_component)
    /\ ms_pc' = IF safe_result'.raised = "" THEN "returned" ELSE safe_result'.raised
    /\ UNCHANGED <<path_component, safe_again, parseVars, mainVars, moveVars>>

\* make_safe(safe)
ReapplyMakeSafe ==
    /\ ms_pc = "returned"
    /\ safe_again' = make_safe(safe_result.value)
    /\ ms_pc' = "reapplied"
    /\ UNCHANGED <<path_component, safe_result, parseVars, mainVars, moveVars>>

NextSafe == ApplyMakeSafe \/ ReapplyMakeSafe

SpecSafe == InitSafe /\ [][NextSafe]_vars

\* ------------------------------------------------------------------------
\* Claims about make_safe
\* ------------------------------------------------------------------------

\* C5: a path component that sanitizes to the empty string is handled
\* explicitly by make_safe (rejected with a dedicated error or replaced by a
\* placeholder): the call never ends in an uncontrolled IndexError.
C5_EmptyIsHandled == ms_pc # "IndexError"

\* C6: make_safe is idempotent: whenever make_safe(s) returns, make_safe of
\* that output returns too and equals it.
C6_Idempotent ==
    ms_pc = "reapplied" =>
        /\ safe_again.raised = ""
        /\ safe_again.value = safe_result.value

\* A component that loses characters and gains the '_' prefix, reapplied.
C6_Witness ==
    /\ ms_pc = "reapplied"
    /\ safe_result.value # path_component
    /\ Len(safe_result.value) < Len(path_component)
    /\ safe_result.value[1] = "_"

\* C7: whenever make_safe returns, its output holds no reserved and no control
\* character, does not end with '.' or ' ', and its part before the first '.',
\* upper-cased, is no reserved device name; an input whose cleaned stem is a
\* reserved device name yields an output that starts with '_'.
C7_OutputIsSafe ==
    (ms_pc \in {"returned", "reapplied"}) =>
        LET out == safe_result.value
            cleaned == SelectSeq(path_component,
                                 LAMBDA c : c \notin (ReservedChars \cup ControlChars))
            \* the cleaned stem: up to the first '.', trailing '.' and ' ' aside
            reservedStem ==
                \E n \in ILLEGAL_NAMES :
                    /\ Len(cleaned) >= Len(n)
                    /\ Upper(SubSeq(cleaned, 1, Len(n))) = n
                    /\ \/ \A i \in (Len(n) + 1)..Len(cleaned) : cleaned[i] \in {".", " "}
                       \/ /\ Len(cleaned) > Len(n)
                          /\ cleaned[Len(n) + 1] = "."
                          /\ \E i \in (Len(n) + 1)..Len(cleaned) : cleaned[i] \notin {".", " "}
        IN  /\ \A i \in 1..Len(out) : out[i] \notin (ReservedChars \cup ControlChars)
            /\ out # <<>>
            /\ out[Len(out)] \notin {".", " "}
            /\ FirstField(Upper(out), ".") \notin ILLEGAL_NAMES
            /\ (reservedStem \/ path_component \in ReservedInputs) => out[1] = "_"

\* A reserved name in mixed case, wrapped in characters that are removed.
C7_Witness ==
    /\ ms_pc = "returned"
    /\ path_component = <<"*", "c", "O", "N">>
    /\ safe_result.value = <<"_", "c", "O", "N">>

\* ------------------------------------------------------------------------
\* check: the parse of one checksum line
\* ------------------------------------------------------------------------

\* The parse as the line format "<checksum> *<path>" alone would have it: the
\* first character of the rest is dropped only when it is the '*' flag.
ParseLineStarOnly(l) ==
    LET sp == Find(l, " ")
        rest == SubSeq(l, sp + 1, Len(l))
    IN  IF sp = 0 THEN Raises("ValueError")
        ELSE IF rest = <<>> THEN Raises("IndexError")
        ELSE Returns([filename    |-> IF rest[1] = "*" THEN Tail(rest) ELSE rest,
                      binary_mode |-> rest[1] = "*",
                      checksum    |-> SubSeq(l, 1, sp - 1)])

\* checksum, filename = line.split(' ', 1)   (ValueError when l holds no space)
\* if filename[0] == '*': binary = True      (IndexError when filename is empty)
\* filename = filename[1:]
\* The item is ChecksumItem(filename, binary) with the expected checksum; its
\* cache field _checksum starts empty and is filled by the item's one call of
\* checksum(), so it is not kept here.
ParseLine(l) ==
    LET sp == Find(l, " ")
        rest == SubSeq(l, sp + 1, Len(l))
    IN  IF sp = 0 THEN Raises("ValueError")
        ELSE IF rest = <<>> THEN Raises("IndexError")
        ELSE Returns([filename    |-> Tail(rest),
                      binary_mode |-> rest[1] = "*",
                      checksum    |-> SubSeq(l, 1, sp - 1)])

LineAlphabet == {"a", " ", "*", "/"}

\* Specification SpecParse: the parse of any one line over LineAlphabet.
InitParse ==
    /\ line \in Strings(LineAlphabet, MaxLineLen)
    /\ parsed = NoResult /\ pl_pc = "start"
    /\ SafeIdle /\ MainIdle /\ MoveIdle

ApplyParseLine ==
    /\ pl_pc = "start"
    /\ parsed' = ParseLine(line)
    /\ pl_pc' = IF parsed'.raised = "" THEN "parsed" ELSE parsed'.raised
    /\ UNCHANGED <<line, safeVars, mainVars, moveVars>>

NextParse == ApplyParseLine

SpecParse == InitParse /\ [][NextParse]_vars

\* The line is <checksum> ' ' <rest>, the checksum holding no space.
SplitsInto(l, checksum, rest) ==
    /\ l = checksum \o <<" ">> \o rest
    /\ \A i \in 1..Len(checksum) : checksum[i] # " "

\* C1 (as claimed): a parsed line splits on its first space into checksum and
\* rest; when rest starts with '*' the item is binary and its path is rest
\* without the '*', otherwise the item is text mode and its path is rest,
\* unchanged.
C1_TextPathUnchanged ==
    pl_pc = "parsed" =>
        \E k \in 1..Len(line) :
            LET rest == SubSeq(line, k + 1, Len(line))
            IN  /\ SplitsInto(line, parsed.value.checksum, rest)
                /\ rest # <<>>
                /\ IF rest[1] = "*"
                   THEN parsed.value.binary_mode /\ parsed.value.filename = Tail(rest)
                   ELSE ~parsed.value.binary_mode /\ parsed.value.filename = rest

\* C1 (amended): a parsed line splits on its first space into checksum and
\* rest; the item is binary exactly when rest starts with '*', and in both
\* modes its path is rest without its first character (the mode flag).
C1_FlagCharacterDropped ==
    pl_pc = "parsed" =>
        \E k \in 1..Len(line) :
            LET rest == SubSeq(line, k + 1, Len(line))
            IN  /\ SplitsInto(line, parsed.value.checksum, rest)
                /\ rest # <<>>
                /\ parsed.value.binary_mode = (rest[1] = "*")
                /\ parsed.value.filename = Tail(rest)

\* A text-mode line in md5sum's form, two spaces between checksum and path.
C1_Witness ==
    /\ pl_pc = "parsed"
    /\ line = <<"a", " ", " ", "a">>
    /\ ~parsed.value.binary_mode
    /\ parsed.value.filename = <<"a">>

\* ------------------------------------------------------------------------
\* get_product_info, flat_sums, folder_sums
\* ------------------------------------------------------------------------
Digits == {"0"} \cup Digits19
Letters == {Lowercase[i] : i \in 1..Len(Lowercase)} \cup {Uppercase[i] : i \in 1..Len(Uppercase)}

\* urllib.parse.scheme_chars
SchemeChars == Letters \cup Digits \cup {"+", "-", "."}

\* The schemes of urllib.parse.uses_params that the manifests here use.
UsesParams == {<<>>, <<"f", "t", "p">>, <<"h", "t", "t", "p">>,
               <<"h", "t", "t", "p", "s">>}

\* Index of the last occurrence of c in s, 0 when there is none (str.rfind + 1).
RFind(s, c) ==
    IF \E i \in 1..Len(s) : s[i] = c
    THEN CHOOSE i \in 1..Len(s) : s[i] = c /\ \A j \in (i + 1)..Len(s) : s[j] # c
    ELSE 0

\* s[:i] for the first c in s at index i, s itself when s holds no c.
Before(s, c) == FirstField(s, c)

\* urlsplit: the scheme is url[:i] for the first ':' when url starts with a
\* letter and url[:i] holds scheme characters only.
HasScheme(url) ==
    LET i == Find(url, ":")
    IN  /\ i > 1
        /\ url[1] \in Letters
        /\ \A j \in 1..(i - 1) : url[j] \in SchemeChars

UrlScheme(url) ==
    IF HasScheme(url) THEN Lower(SubSeq(url, 1, Find(url, ":") - 1)) ELSE <<>>

AfterScheme(url) ==
    IF HasScheme(url) THEN SubSeq(url, Find(url, ":") + 1, Len(url)) ELSE url

\* urlsplit: after '//' the netloc runs up to the first of '/', '?', '#'.
AfterNetloc(u) ==
    IF Len(u) >= 2 /\ u[1] = "/" /\ u[2] = "/"
    THEN LET ends == {i \in 3..Len(u) : u[i] \in {"/", "?", "#"}}
         IN  IF ends = {} THEN <<>>
             ELSE SubSeq(u, CHOOSE i \in ends : \A j \in ends : i <= j, Len(u))
    ELSE u

\* urlparse: for a scheme that uses parameters, the parameters after the first
\* ';' of the last path segment are split off the path.
WithoutParams(scheme, path) ==
    IF scheme \in UsesParams /\ Find(path, ";") # 0
    THEN LET from == RFind(path, "/")
             semis == {i \in (from + 1)..Len(path) : path[i] = ";"}
         IN  IF semis = {} THEN path
             ELSE SubSeq(path, 1, (CHOOSE i \in semis : \A j \in semis : i <= j) - 1)
    ELSE path

\* urlparse(url).path
UrlPath(url) ==
    WithoutParams(UrlScheme(url),
                  Before(Before(AfterNetloc(AfterScheme(url)), "#"), "?"))

\* path.split("/")[-1]
LastSegment(path) == SubSeq(path, RFind(path, "/") + 1, Len(path))

\* ProductInfo.__init__: make_safe of either name may raise.
ProductInfo(human_name, filename, checksum) ==
    LET sh == make_safe(human_name)
        sf == make_safe(filename)
    IN  IF sh.raised # "" THEN sh
        ELSE IF sf.raised # "" THEN sf
        ELSE Returns([human_name      |-> human_name,
                      filename        |-> filename,
                      checksum        |-> checksum,
                      safe_human_name |-> sh.value,
                      safe_filename   |-> sf.value])

\* A variant of the append below that skips a record whose file name the list holds.
AddInfoOnce(list, info) ==
    IF \E i \in 1..Len(list) : list[i].filename = info.filename
    THEN list ELSE Append(list, info)

\* product_info.append(info)
AddInfo(list, info) == Append(list, info)

\* A variant of flat_sums that writes the text-mode separator, two spaces.
flat_sums_text(ps) ==
    [i \in 1..Len(ps) |-> ps[i].checksum \o <<" ", " ", ".", "/">> \o ps[i].safe_filename]

\* product.checksum + ' *./' + product.safe_filename
flat_sums(ps) ==
    [i \in 1..Len(ps) |-> ps[i].checksum \o <<" ", "*", ".", "/">> \o ps[i].safe_filename]

\* product.checksum + ' *./' + product.safe_human_name + '/' + product.safe_filename
folder_sums(ps) ==
    [i \in 1..Len(ps) |->
        ps[i].checksum \o <<" ", "*", ".", "/">> \o ps[i].safe_human_name
        \o <<"/">> \o ps[i].safe_filename]

\* Manifests: MD5 values, download-structs, the downloads of a product, names.
Md5Values == {<<"5", "d">>, <<"a", "1">>}

Ds1 == [url |-> <<"f", "t", "p", ":", "/", "/", "x", "/", "d", "/", "g", ".", "z">>,
        md5 |-> <<"5", "d">>]
\* the file name of Ds1 again, under another URL and with another checksum
Ds2 == [url |-> <<"f", "t", "p", ":", "/", "/", "y", "/", "g", ".", "z", "?", "k", "#", "f">>,
        md5 |-> <<"a", "1">>]
\* an empty file name
Ds3 == [url |-> <<"f", "t", "p", ":", "/", "/", "x", "/", "d", "/">>,
        md5 |-> <<"a", "1">>]
\* a reserved device name, with URL parameters
Ds4 == [url |-> <<"f", "t", "p", ":", "/", "/", "x", "/", "C", "O", "N", ";", "p">>,
        md5 |-> <<"5", "d">>]

HumanNames == {<<"M", " ", "g">>, <<"C", "O", "N">>}

\* Products: two structs in one download; an empty download before two
\* downloads of one struct; no download; one struct; a struct whose file name
\* is empty; a struct whose file name is a reserved device name.
Subproducts ==
    { [human_name |-> <<"M", " ", "g">>, downloads |-> << <<Ds1, Ds2>> >>],
      [human_name |-> <<"C", "O", "N">>, downloads |-> << <<>>, <<Ds2>>, <<Ds4>> >>],
      [human_name |-> <<"M", " ", "g">>, downloads |-> <<>>],
      [human_name |-> <<"C", "O", "N">>, downloads |-> << <<Ds1>> >>],
      [human_name |-> <<"M", " ", "g">>, downloads |-> << <<Ds3>> >>],
      [human_name |-> <<"M", " ", "g">>, downloads |-> << <<Ds4>> >>] }

Manifests == UNION {[1..k -> Subproducts] : k \in 0..MaxProducts}

\* ------------------------------------------------------------------------
\* check and ChecksumItem.checksum
\* ------------------------------------------------------------------------
ChunkSize == 4096

\* Sizes of the files on disk, in units read (bytes, or characters in text mode).
FileSizes == {k * ChunkSize + r : k \in 0..MaxChunks, r \in {0, 1}}

Min(a, b) == IF a <= b THEN a ELSE b

\* fp.read(4096): bytes in mode 'rb', str in mode 'r'.
ReadChunk(file, binary_mode) ==
    [type |-> IF binary_mode THEN "bytes" ELSE "str",
     len  |-> Min(ChunkSize, file.size - file.position)]

\* iter(partial(fp.read, 4096), b''): the loop ends when a chunk equals b''.
\* The empty str '' that a text-mode read returns at end of stream is not b''.
IsSentinel(chunk) == chunk.type = "bytes" /\ chunk.len = 0

\* md5sum.hexdigest(): the MD5 of the file when all of it was fed to update.
HexDigest(file, fed) == IF fed = file.size THEN file.md5 ELSE <<"?">>

\* A variant of the handler below that reports the error without counting it.
CountErrorNot(n) == n

\* except PermissionError: ... failed += 1
CountError(n) == n + 1

\* Hand-authored checksum lists given to check: a binary line, md5sum's
\* text-mode line (two spaces), a line with one space and no flag, a line
\* with no space, a line with nothing after the space.
HandLines ==
    { <<"5", "d", " ", "*", "f">>,
      <<"a", "1", " ", " ", "f">>,
      <<"5", "d", " ", "f">>,
      <<"5", "d">>,
      <<"a", "1", " ">> }

HandLists == UNION {[1..k -> HandLines] : k \in 0..MaxLines}

\* ------------------------------------------------------------------------
\* Specification Spec: a manifest is flattened, formatted and verified, or a
\* hand-authored checksum list is verified
\* ------------------------------------------------------------------------
CheckIdle ==
    /\ layout = "none" /\ checksums = <<>> /\ items = <<>> /\ idx = 0
    /\ succeeded = 0 /\ failed = 0 /\ printed = "" /\ fp = NoFile /\ buf = NoBuf
    /\ md5sum = 0

\* products = get_product_info(data)
InitManifest ==
    /\ data \in Manifests
    /\ gp = <<1, 0, 0>> /\ product_info = <<>> /\ pc = "gp_products"
    /\ CheckIdle

\* check(checksums), the list not generated from a manifest
InitHandList ==
    /\ data = <<>> /\ gp = <<0, 0, 0>> /\ product_info = <<>>
    /\ layout = "hand" /\ checksums \in HandLists /\ pc = "check"
    /\ items = <<>> /\ idx = 0 /\ succeeded = 0 /\ failed = 0 /\ printed = ""
    /\ fp = NoFile /\ buf = NoBuf /\ md5sum = 0

Init ==
    /\ InitManifest \/ InitHandList
    /\ SafeIdle /\ ParseIdle /\ MoveIdle

restOfMain == <<layout, checksums, items, idx, succeeded, failed, printed, fp, buf, md5sum>>

\* for product in data['subproducts']:
GpProducts ==
    /\ pc = "gp_products"
    /\ IF gp[1] <= Len(data)
       THEN gp' = <<gp[1], 1, 0>> /\ pc' = "gp_downloads"
       ELSE gp' = gp /\ pc' = "sums"
    /\ UNCHANGED <<data, product_info, restOfMain, safeVars, parseVars, moveVars>>

\* for download in product['downloads']:
GpDownloads ==
    /\ pc = "gp_downloads"
    /\ IF gp[2] <= Len(data[gp[1]].downloads)
       THEN gp' = <<gp[1], gp[2], 1>> /\ pc' = "gp_structs"
       ELSE gp' = <<gp[1] + 1, 0, 0>> /\ pc' = "gp_products"
    /\ UNCHANGED <<data, product_info, restOfMain, safeVars, parseVars, moveVars>>

\* for ds in download['download_struct']: ... product_info.append(info)
GpStructs ==
    /\ pc = "gp_structs"
    /\ LET product == data[gp[1]]
           download == product.downloads[gp[2]]
       IN  IF gp[3] <= Len(download)
           THEN LET ds == download[gp[3]]
                    info == ProductInfo(product.human_name,
                                        LastSegment(UrlPath(ds.url)), ds.md5)
                IN  IF info.raised # ""
                    THEN /\ pc' = info.raised
                         /\ UNCHANGED <<gp, product_info>>
                    ELSE /\ product_info' = AddInfo(product_info, info.value)
                         /\ gp' = <<gp[1], gp[2], gp[3] + 1>>
                         /\ pc' = pc
           ELSE /\ gp' = <<gp[1], gp[2] + 1, 0>>
                /\ pc' = "gp_downloads"
                /\ UNCHANGED product_info
    /\ UNCHANGED <<data, restOfMain, safeVars, parseVars, moveVars>>

\* checksums = flat_sums(products)
FlatSums ==
    /\ pc = "sums"
    /\ checksums' = flat_sums(product_info)
    /\ layout' = "flat"
    /\ pc' = "check"
    /\ UNCHANGED <<data, gp, product_info, items, idx, succeeded, failed, printed,
                   fp, buf, md5sum, safeVars, parseVars, moveVars>>

\* checksums = folder_sums(products)
FolderSums ==
    /\ pc = "sums"
    /\ checksums' = folder_sums(product_info)
    /\ layout' = "folder"
    /\ pc' = "check"
    /\ UNCHANGED <<data, gp, product_info, items, idx, succeeded, failed, printed,
                   fp, buf, md5sum, safeVars, parseVars, moveVars>>

\* check, first loop: every line is parsed before any file is opened; the
\* first line that does not parse ends check with its exception.
CheckParse ==
    /\ pc = "check"
    /\ LET results == [i \in 1..Len(checksums) |-> ParseLine(checksums[i])]
           bad == {i \in 1..Len(checksums) : results[i].raised # ""}
       IN  IF bad = {}
           THEN /\ items' = [i \in 1..Len(checksums) |-> results[i].value]
                /\ idx' = 1
                /\ pc' = "verify"
           ELSE LET first == CHOOSE i \in bad : \A j \in bad : i <= j
                IN  /\ items' = [i \in 1..(first - 1) |-> results[i].value]
                    /\ idx' = idx
                    /\ pc' = results[first].raised
    /\ succeeded' = 0 /\ failed' = 0
    /\ UNCHANGED <<data, gp, product_info, layout, checksums, printed, fp, buf,
                   md5sum, safeVars, parseVars, moveVars>>

\* checksum(): open(self.filename, mode) raises PermissionError, which check
\* catches: the problem is printed and the item counted as failed.
OpenDenied ==
    /\ pc = "verify" /\ idx <= Len(items)
    /\ printed' = "Problem"
    /\ failed' = CountError(failed)
    /\ idx' = idx + 1
    /\ UNCHANGED <<data, gp, product_info, layout, checksums, items, succeeded,
                   fp, buf, md5sum, pc, safeVars, parseVars, moveVars>>

\* checksum(): open raises another OSError (the file is missing); check has
\* no handler for it and ends with the exception.
OpenMissing ==
    /\ pc = "verify" /\ idx <= Len(items)
    /\ pc' = "FileNotFoundError"
    /\ UNCHANGED <<data, gp, product_info, layout, checksums, items, idx, succeeded,
                   failed, printed, fp, buf, md5sum, safeVars, parseVars, moveVars>>

\* checksum(): open succeeds; md5sum = hashlib.md5()
OpenFile ==
    /\ pc = "verify" /\ idx <= Len(items)
    /\ \E size \in FileSizes, md5 \in Md5Values :
           fp' = [size |-> size, md5 |-> md5, position |-> 0]
    /\ md5sum' = 0
    /\ pc' = "read"
    /\ UNCHANGED <<data, gp, product_info, layout, checksums, items, idx, succeeded,
                   failed, printed, buf, safeVars, parseVars, moveVars>>

\* the iterator's next(): buf = fp.read(4096), compared with the sentinel b''
NextChunk ==
    /\ pc = "read"
    /\ buf' = ReadChunk(fp, items[idx].binary_mode)
    /\ fp' = [fp EXCEPT !.position = @ + buf'.len]
    /\ pc' = IF IsSentinel(buf') THEN "hexdigest" ELSE "update"
    /\ UNCHANGED <<data, gp, product_info, layout, checksums, items, idx, succeeded,
                   failed, printed, md5sum, safeVars, parseVars, moveVars>>

\* md5sum.update(buf): TypeError for a str, which check does not catch
Update ==
    /\ pc = "update"
    /\ IF buf.type = "str"
       THEN pc' = "TypeError" /\ md5sum' = md5sum
       ELSE pc' = "read" /\ md5sum' = md5sum + buf.len
    /\ UNCHANGED <<data, gp, product_info, layout, checksums, items, idx, succeeded,
                   failed, printed, fp, buf, safeVars, parseVars, moveVars>>

\* self._checksum = md5sum.hexdigest(); check compares it with the expected
\* checksum, prints OK or FAILED and counts the item.
Compare ==
    /\ pc = "hexdigest"
    /\ IF HexDigest(fp, md5sum) = items[idx].checksum
       THEN printed' = "OK" /\ succeeded' = succeeded + 1 /\ failed' = failed
       ELSE printed' = "FAILED" /\ failed' = failed + 1 /\ succeeded' = succeeded
    /\ idx' = idx + 1
    /\ fp' = NoFile /\ buf' = NoBuf /\ md5sum' = 0
    /\ pc' = "verify"
    /\ UNCHANGED <<data, gp, product_info, layout, checksums, items, safeVars,
                   parseVars, moveVars>>

\* print("Succeeded: ", succeeded); print("Failed: ", failed)
CheckDone ==
    /\ pc = "verify" /\ idx > Len(items)
    /\ printed' = "Summary"
    /\ pc' = "done"
    /\ UNCHANGED <<data, gp, product_info, layout, checksums, items, idx, succeeded,
                   failed, fp, buf, md5sum, safeVars, parseVars, moveVars>>

Next ==
    \/ GpProducts \/ GpDownloads \/ GpStructs
    \/ FlatSums \/ FolderSums
    \/ CheckParse
    \/ OpenDenied \/ OpenMissing \/ OpenFile \/ NextChunk \/ Update \/ Compare
    \/ CheckDone

Spec == Init /\ [][Next]_vars

\* ------------------------------------------------------------------------
\* Claims about generation and verification
\* ------------------------------------------------------------------------

\* The download-structs of the manifest, as (product, download, struct) indices.
Structs ==
    UNION {UNION {{<<p, d, n>> : n \in 1..Len(data[p].downloads[d])}
                  : d \in 1..Len(data[p].downloads)}
           : p \in 1..Len(data)}

\* Nested manifest order.
Precedes(a, b) ==
    \/ a[1] < b[1]
    \/ a[1] = b[1] /\ a[2] < b[2]
    \/ a[1] = b[1] /\ a[2] = b[2] /\ a[3] < b[3]

\* The place of download-struct t among the download-structs S, from 1.
Place(S, t) == Cardinality({u \in S : Precedes(u, t)}) + 1

\* The last path segment of each URL of the manifests, as urlparse gives it.
SegmentOf(url) ==
    CASE url = Ds1.url -> <<"g", ".", "z">>
      [] url = Ds2.url -> <<"g", ".", "z">>
      [] url = Ds3.url -> <<>>
      [] url = Ds4.url -> <<"C", "O", "N">>

Flattening == pc \in {"gp_products", "gp_downloads", "gp_structs"}

\* C9: get_product_info yields exactly one record per (product, download,
\* download-struct), in nested manifest order, and flat_sums / folder_sums
\* yield exactly one line per record in the same order: record i and line i
\* belong to the i-th download-struct of the traversal, with no sorting and
\* no deduplication.
C9_TraversalOrderKept ==
    (layout # "hand") =>
        LET S == Structs
            place == [t \in S |-> Place(S, t)]
            n == Len(product_info)
        IN  /\ n <= Cardinality(S)
            /\ (~Flattening /\ pc # "IndexError") => n = Cardinality(S)
            /\ \A t \in S :
                   place[t] <= n =>
                       LET ds == data[t[1]].downloads[t[2]][t[3]]
                           info == product_info[place[t]]
                       IN  /\ info.human_name = data[t[1]].human_name
                           /\ info.filename = SegmentOf(ds.url)
                           /\ info.checksum = ds.md5
            /\ (layout \in {"flat", "folder"}) =>
                   /\ Len(checksums) = Cardinality(S)
                   /\ \A t \in S :
                          LET ds == data[t[1]].downloads[t[2]][t[3]]
                              l == checksums[place[t]]
                              info == product_info[place[t]]
                              name == info.safe_filename
                          IN  /\ SubSeq(l, 1, Len(ds.md5)) = ds.md5
                              /\ SubSeq(l, Len(l) - Len(name) + 1, Len(l)) = name
                              /\ layout = "folder" =>
                                     SubSeq(l, Len(ds.md5) + 5, Len(l) - Len(name) - 1)
                                         = info.safe_human_name

\* Two products, the first with two files, the second with the first file's
\* name again: three records and three lines.
C9_Witness ==
    /\ layout = "flat"
    /\ Len(data) = 2
    /\ Len(data[1].downloads) = 1 /\ Len(data[1].downloads[1]) = 2
    /\ Len(product_info) = 3 /\ Len(checksums) = 3
    /\ product_info[3].filename = product_info[1].filename
    /\ product_info[3].checksum # product_info[2].checksum

\* C4: every line flat_sums or folder_sums produces is parsed by check back to
\* binary mode, the relative path './<safe_filename>' or
\* './<safe_human_name>/<safe_filename>' and the checksum of its file record.
C4_RoundTrip ==
    (layout \in {"flat", "folder"}) =>
        /\ pc \notin {"ValueError", "IndexError"}
        /\ pc # "check" =>
               /\ Len(items) = Len(product_info)
               /\ \A i \in 1..Len(items) :
                      /\ items[i].binary_mode
                      /\ items[i].checksum = product_info[i].checksum
                      /\ items[i].filename =
                             IF layout = "flat"
                             THEN <<".", "/">> \o product_info[i].safe_filename
                             ELSE <<".", "/">> \o product_info[i].safe_human_name
                                  \o <<"/">> \o product_info[i].safe_filename

\* A folder line whose path holds a space and a renamed device name.
C4_Witness ==
    /\ layout = "folder" /\ pc = "verify"
    /\ \E i \in 1..Len(items) :
           /\ items[i].filename = <<".", "/", "M", " ", "g", "/", "_", "C", "O", "N">>
           /\ product_info[i].filename = <<"C", "O", "N">>

\* C3: in check, succeeded + failed equals the number of items processed so
\* far at every step of the verification loop and the number of input lines
\* after a full pass; every item processed adds one to exactly one of the two
\* counters (OK to succeeded, FAILED or ERROR to failed), and nothing else
\* changes them.
C3_CountersMatchItems ==
    /\ [](/\ idx >= 1 => succeeded + failed = idx - 1
          /\ pc = "done" => succeeded + failed = Len(checksums))
    /\ [][idx >= 1 =>
            IF idx' = idx
            THEN succeeded' = succeeded /\ failed' = failed
            ELSE /\ idx' = idx + 1
                 /\ \/ printed' = "OK" /\ succeeded' = succeeded + 1 /\ failed' = failed
                    \/ /\ printed' \in {"FAILED", "Problem"}
                       /\ failed' = failed + 1 /\ succeeded' = succeeded]_vars

\* A full pass over three lines: one OK, two counted as failed.
C3_Witness ==
    /\ pc = "done" /\ Len(checksums) = 3
    /\ succeeded = 1 /\ failed = 2

\* C2: a file that cannot be opened or read, for a permission denial or any
\* other I/O failure such as a missing file, is reported, counted as failed
\* and the pass continues: check never ends on the failure of one item.
C2_EveryFailureRecovered == pc # "FileNotFoundError"

\* C10: the checksum of a readable file is computed to the end in both modes:
\* the chunk loop reaches end of stream and the hex digest is returned, so
\* checksum() of a file that opened never ends with an exception.
C10_DigestReturnedInBothModes == pc # "TypeError"

\* ------------------------------------------------------------------------
\* make_folders, move_items, make_move
\* ------------------------------------------------------------------------

\* A variant of make_move that moves the items before it makes the folders.
move_make == <<"move_items", "make_folders">>

\* make_move: make_folders(products), then move_items(products)
make_move == <<"make_folders", "move_items">>

\* main: --mkdirs, --automove and --makemove exclude one another.
Calls(opt) ==
    CASE opt = "mkdirs"   -> <<"make_folders">>
      [] opt = "automove" -> <<"move_items">>
      [] opt = "makemove" -> make_move

\* make_folders, first loop: the set of the records' safe_human_name
FolderSet(ps) == {ps[i].safe_human_name : i \in 1..Len(ps)}

\* os.rename(product.safe_filename, product.safe_human_name + "/" + product.safe_filename)
RenameOf(product) ==
    [op   |-> "rename",
     src  |-> product.safe_filename,
     dir  |-> product.safe_human_name,
     path |-> product.safe_human_name \o <<"/">> \o product.safe_filename]

\* os.mkdir(folder)
MkdirOf(folder) == [op |-> "mkdir", src |-> <<>>, dir |-> folder, path |-> folder]

\* File records given to the organizer.
MoveRecords ==
    {ProductInfo(h, f, <<"5", "d">>).value :
        h \in HumanNames, f \in {<<"g", ".", "z">>, <<"C", "O", "N">>}}

\* Specification SpecMove: one of the three organizer options on a record list
InitMove ==
    /\ products \in UNION {[1..k -> MoveRecords] : k \in 0..MaxRecords}
    /\ option \in {"mkdirs", "automove", "makemove"}
    /\ todo = Calls(option)
    /\ folders = {} /\ created = {} /\ oplog = <<>> /\ mv = 0 /\ org_pc = "call"
    /\ SafeIdle /\ ParseIdle /\ MainIdle

\* the next call of the option, or the end of the run
Call ==
    /\ org_pc = "call"
    /\ IF todo = <<>>
       THEN org_pc' = "done" /\ todo' = todo
       ELSE org_pc' = Head(todo) /\ todo' = Tail(todo)
    /\ UNCHANGED <<products, option, folders, created, oplog, mv,
                   safeVars, parseVars, mainVars>>

\* make_folders: folders = set(); for product in products: folders.add(...)
MakeFolders ==
    /\ org_pc = "make_folders"
    /\ folders' = FolderSet(products)
    /\ org_pc' = "mkdir"
    /\ UNCHANGED <<products, option, todo, created, oplog, mv,
                   safeVars, parseVars, mainVars>>

\* for folder in folders: os.mkdir(folder), in the set's iteration order
Mkdir ==
    /\ org_pc = "mkdir"
    /\ \E folder \in folders :
           /\ folders' = folders \ {folder}
           /\ created' = created \cup {folder}
           /\ oplog' = Append(oplog, MkdirOf(folder))
    /\ UNCHANGED <<products, option, todo, mv, org_pc, safeVars, parseVars, mainVars>>

\* os.mkdir raises (the directory exists): the run ends with the exception
MkdirFails ==
    /\ org_pc = "mkdir" /\ folders # {}
    /\ org_pc' = "FileExistsError"
    /\ UNCHANGED <<products, option, todo, folders, created, oplog, mv,
                   safeVars, parseVars, mainVars>>

\* make_folders returns
MakeFoldersReturns ==
    /\ org_pc = "mkdir" /\ folders = {}
    /\ org_pc' = "call"
    /\ UNCHANGED <<products, option, todo, folders, created, oplog, mv,
                   safeVars, parseVars, mainVars>>

\* move_items: for product in products: os.rename(...)
MoveItem ==
    /\ org_pc = "move_items" /\ mv < Len(products)
    /\ oplog' = Append(oplog, RenameOf(products[mv + 1]))
    /\ mv' = mv + 1
    /\ UNCHANGED <<products, option, todo, folders, created, org_pc,
                   safeVars, parseVars, mainVars>>

\* os.rename raises (no such file or directory): the run ends with the exception
RenameFails ==
    /\ org_pc = "move_items" /\ mv < Len(products)
    /\ org_pc' = "FileNotFoundError"
    /\ UNCHANGED <<products, option, todo, folders, created, oplog, mv,
                   safeVars, parseVars, mainVars>>

\* move_items returns
MoveItemsReturns ==
    /\ org_pc = "move_items" /\ mv = Len(products)
    /\ org_pc' = "call"
    /\ UNCHANGED <<products, option, todo, folders, created, oplog, mv,
                   safeVars, parseVars, mainVars>>

NextMove ==
    \/ Call
    \/ MakeFolders \/ Mkdir \/ MkdirFails \/ MakeFoldersReturns
    \/ MoveItem \/ RenameFails \/ MoveItemsReturns

SpecMove == InitMove /\ [][NextMove]_vars

\* C8: make_move creates the directories fully before any move begins: no
\* os.rename comes before an os.mkdir, every distinct safe_human_name is
\* created at most once, and every move's target directory is one that
\* make_folders created earlier in the run, all directories being made by then.
C8_FoldersBeforeMoves ==
    (option = "makemove") =>
        /\ \A i, j \in 1..Len(oplog) :
               (i < j) => ~(oplog[i].op = "rename" /\ oplog[j].op = "mkdir")
        /\ \A i, j \in 1..Len(oplog) :
               (i # j /\ oplog[i].op = "mkdir" /\ oplog[j].op = "mkdir")
                   => oplog[i].dir # oplog[j].dir
        /\ \A i \in 1..Len(oplog) :
               (oplog[i].op = "rename") =>
                   /\ \E j \in 1..(i - 1) :
                          oplog[j].op = "mkdir" /\ oplog[j].dir = oplog[i].dir
                   /\ \A k \in 1..Len(products) :
                          \E j \in 1..(i - 1) :
                              /\ oplog[j].op = "mkdir"
                              /\ oplog[j].dir = products[k].safe_human_name

\* Two records of one product: one directory made, then two files moved.
C8_Witness ==
    /\ option = "makemove" /\ org_pc = "done"
    /\ Len(products) = 2
    /\ products[1].safe_human_name = products[2].safe_human_name
    /\ Len(oplog) = 3
    /\ oplog[1].op = "mkdir" /\ oplog[2].op = "rename" /\ oplog[3].op = "rename"

====
